---- MODULE Spec2Model ----
(***************************************************************************)
(* Model of scripts/evaluate.py: the metadata extractor                    *)
(* (extract_frontmatter, extract_title), target discovery, plan            *)
(* generation, run_evaluation / evaluate_file and the CLI dispatcher main. *)
(*                                                                         *)
(* Text is modelled at character level: a Python str is a sequence of      *)
(* one-character strings, so that split, strip, startswith, the regular    *)
(* expression of line 124 and str.title are computed, not assumed.         *)
(***************************************************************************)
EXTENDS Integers, Sequences, FiniteSets, TLC

VARIABLES
    file_path,      \* extractor: the path handed to the extractor
    readable,       \* extractor: TRUE iff open/read/decode of file_path succeeds
    content,        \* extractor: the decoded text of the file (when readable)
    frontmatter,    \* extractor: outcome of the extract_frontmatter call
    title,          \* extractor: outcome of the extract_title call
    dirs,           \* discovery: state of each configured directory
    targets,        \* discovery: outcome of discover_evaluation_targets
    plan,           \* discovery: outcome of generate_evaluation_plan
    argv,           \* CLI: sys.argv[1:]
    github_token,   \* CLI: TRUE iff GITHUB_TOKEN is set (self.github_token)
    path_state,     \* CLI: state of the file named by the path argument
    outdir,         \* CLI: state of the output directory evaluation-results
    written,        \* CLI: the output files written by this run, [file, data]
    requests,       \* CLI: the HTTP requests sent so far, in order
    last_run,       \* CLI: outcome of the latest run_evaluation call
    net,            \* CLI: what the network did with the latest request
    results,        \* CLI: the results dict of evaluate_file (or its error)
    todo,           \* CLI: models_to_test not yet evaluated
    printed,        \* CLI: kinds of messages printed so far
    pc,             \* CLI: position of main
    uncaught        \* CLI: TRUE iff an exception left main

extractVars == <<file_path, readable, content, frontmatter, title>>
discoverVars == <<dirs, targets, plan>>
cliVars == <<argv, github_token, path_state, outdir, written, requests,
             last_run, net, results, todo, printed, pc, uncaught>>
vars == <<file_path, readable, content, frontmatter, title, dirs, targets, plan,
          argv, github_token, path_state, outdir, written, requests,
          last_run, net, results, todo, printed, pc, uncaught>>

----------------------------------------------------------------------------
(* Bounds of the model *)

\* Largest number of lines of a file handed to the extractor.
MaxLines == 3
\* Largest number of entries of a scanned directory.
MaxDirFiles == 2

----------------------------------------------------------------------------
(* Python str primitives *)

Whitespace == {" ", "\t"}
NL == "\n"

LowerChars == <<"a","b","c","d","e","f","g","h","i","j","k","l","m",
                "n","o","p","q","r","s","t","u","v","w","x","y","z">>
UpperChars == <<"A","B","C","D","E","F","G","H","I","J","K","L","M",
                "N","O","P","Q","R","S","T","U","V","W","X","Y","Z">>

IsLower(c) == \E i \in 1..Len(LowerChars) : LowerChars[i] = c
IsUpper(c) == \E i \in 1..Len(UpperChars) : UpperChars[i] = c
IsCased(c) == IsLower(c) \/ IsUpper(c)
ToUpper(c) == IF IsLower(c)
              THEN UpperChars[CHOOSE i \in 1..Len(LowerChars) : LowerChars[i] = c]
              ELSE c
ToLower(c) == IF IsUpper(c)
              THEN LowerChars[CHOOSE i \in 1..Len(UpperChars) : UpperChars[i] = c]
              ELSE c

\* str.lstrip / str.rstrip / str.strip with no argument
RECURSIVE LStrip(_)
LStrip(s) == IF s # <<>> /\ Head(s) \in Whitespace THEN LStrip(Tail(s)) ELSE s

RECURSIVE RStrip(_)
RStrip(s) == IF s # <<>> /\ s[Len(s)] \in Whitespace
             THEN RStrip(SubSeq(s, 1, Len(s) - 1))
             ELSE s

Strip(s) == RStrip(LStrip(s))

\* str.startswith / str.endswith
StartsWith(s, p) == Len(s) >= Len(p) /\ SubSeq(s, 1, Len(p)) = p
EndsWith(s, p) == Len(s) >= Len(p) /\ SubSeq(s, Len(s) - Len(p) + 1, Len(s)) = p

\* str.split(sep) for a one-character separator: always at least one piece
RECURSIVE SplitFrom(_, _, _, _)
SplitFrom(s, sep, cur, acc) ==
    IF s = <<>> THEN Append(acc, cur)
    ELSE IF Head(s) = sep THEN SplitFrom(Tail(s), sep, <<>>, Append(acc, cur))
    ELSE SplitFrom(Tail(s), sep, Append(cur, Head(s)), acc)

Split(s, sep) == SplitFrom(s, sep, <<>>, <<>>)

\* sep.join(pieces)
RECURSIVE Join(_, _)
Join(pieces, sep) ==
    IF pieces = <<>> THEN <<>>
    ELSE IF Len(pieces) = 1 THEN pieces[1]
    ELSE pieces[1] \o <<sep>> \o Join(Tail(pieces), sep)

\* str.replace(old, new) for one-character old and new
Replace(s, old, new) == [i \in 1..Len(s) |-> IF s[i] = old THEN new ELSE s[i]]

\* str.title(): a cased character is upper-cased when the character before it
\* is not cased and lower-cased when it is
TitleCase(s) ==
    [i \in 1..Len(s) |->
        IF i > 1 /\ IsCased(s[i - 1]) THEN ToLower(s[i]) ELSE ToUpper(s[i])]

\* os.path.basename: the part after the last "/"
Basename(p) == LET parts == Split(p, "/") IN parts[Len(parts)]

----------------------------------------------------------------------------
(* String constants of the source *)

Delim == <<"-", "-", "-">>
HeadingPrefix == <<"#", " ">>
Unknown == <<"U", "n", "k", "n", "o", "w", "n">>
DQuote == "\""
SQuote == "'"
----------------------------------------------------------------------------
(* Outcome of a call, as its caller sees it: raised is TRUE when an         *)
(* exception escapes the call, ret is the returned value otherwise.        *)

NotCalled == [called |-> FALSE, raised |-> FALSE, ret |-> <<>>]
Returned(v) == [called |-> TRUE, raised |-> FALSE, ret |-> v]
Raised == [called |-> TRUE, raised |-> TRUE, ret |-> <<>>]

\* with open(file_path, 'r', encoding='utf-8') as f: content = f.read()
\* exc is TRUE when open, read or decode raises.
ReadFile(rd, text) == [exc |-> ~rd, ret |-> IF rd THEN text ELSE <<>>]

\* safe_file_operation: the operation's value, or None when it raised.
\* raised: an exception leaves safe_file_operation itself.
SafeFileOperation_reraise(op) ==
    [raised |-> op.exc, none |-> FALSE, val |-> op.ret]
SafeFileOperation(op) ==
    IF op.exc THEN [raised |-> FALSE, none |-> TRUE, val |-> <<>>]
    ELSE [raised |-> FALSE, none |-> FALSE, val |-> op.ret]

\* Python's `x or default` on None, an empty dict and an empty str
IsFalsy(r) == r.none \/ DOMAIN r.val = {}
PyOr_noneonly(r, default) == IF r.none THEN default ELSE r.val
PyOr(r, default) == IF IsFalsy(r) THEN default ELSE r.val

----------------------------------------------------------------------------
(* extract_frontmatter *)

EmptyMap == <<>>

\* re.match(r'^([^:]+):\s*(.*)$', line)
FirstColon(line) ==
    IF \E i \in 1..Len(line) : line[i] = ":"
    THEN CHOOSE i \in 1..Len(line) :
            line[i] = ":" /\ \A j \in 1..(i - 1) : line[j] # ":"
    ELSE 0
ReMatches(line) == FirstColon(line) >= 2
Group1(line) == SubSeq(line, 1, FirstColon(line) - 1)
Group2(line) == LStrip(SubSeq(line, FirstColon(line) + 1, Len(line)))

\* lines[0] != '---' is the "no frontmatter" case
IsFrontmatterStart_strip(lines) == Strip(lines[1]) = Delim
IsFrontmatterStart(lines) == lines[1] = Delim

\* if line == '---': break
IsClosingDelimiter_never(line) == FALSE
IsClosingDelimiter(line) == line = Delim

\* Remove quotes if present: value[1:-1]
Unquote(value) ==
    IF \/ (StartsWith(value, <<DQuote>>) /\ EndsWith(value, <<DQuote>>))
       \/ (StartsWith(value, <<SQuote>>) /\ EndsWith(value, <<SQuote>>))
    THEN SubSeq(value, 2, Len(value) - 1)
    ELSE value

MatchKey(line) == Strip(Group1(line))
MatchValue(line) == Unquote(Strip(Group2(line)))

\* frontmatter[key] = value
StoreKey(fm, key, value) ==
    [k \in DOMAIN fm \cup {key} |-> IF k = key THEN value ELSE fm[k]]

\* for i, line in enumerate(lines[1:], 1): line is lines[i] of the
\* zero-based list, lines[i + 1] here.
RECURSIVE FrontmatterLoop(_, _, _, _)
FrontmatterLoop(lines, i, in_frontmatter, fm) ==
    IF i + 1 > Len(lines) THEN fm
    ELSE LET line == lines[i + 1]
             inside == IF i = 1 THEN TRUE ELSE in_frontmatter
         IN  IF IsClosingDelimiter(line) THEN fm
             ELSE FrontmatterLoop(lines, i + 1, inside,
                    IF inside /\ ReMatches(line)
                    THEN StoreKey(fm, MatchKey(line), MatchValue(line))
                    ELSE fm)

\* the inner operation() of extract_frontmatter
FrontmatterOperation(rd, text) ==
    LET f == ReadFile(rd, text)
        lines == Split(f.ret, NL)
    IN  IF f.exc THEN [exc |-> TRUE, ret |-> <<>>]
        ELSE IF lines = <<>> \/ ~IsFrontmatterStart(lines)
             THEN [exc |-> FALSE, ret |-> EmptyMap]
             ELSE [exc |-> FALSE,
                   ret |-> FrontmatterLoop(lines, 1, FALSE, EmptyMap)]

extract_frontmatter(rd, text) ==
    LET r == SafeFileOperation(FrontmatterOperation(rd, text))
    IN  IF r.raised THEN Raised ELSE Returned(PyOr(r, EmptyMap))

----------------------------------------------------------------------------
(* extract_title *)

\* line.strip() == '---'
IsTitleDelimiter(line) == Strip(line) = Delim

\* frontmatter_ended and line.startswith('# ')
IsTitleLine(line, frontmatter_ended) ==
    frontmatter_ended /\ StartsWith(line, HeadingPrefix)

\* line[2:].strip()
TitleText(line) == Strip(SubSeq(line, 3, Len(line)))

\* for line in lines: ... ; found is FALSE when the loop runs off the end
RECURSIVE TitleLoop(_, _, _, _)
TitleLoop(lines, k, in_frontmatter, frontmatter_ended) ==
    IF k > Len(lines) THEN [found |-> FALSE, val |-> <<>>]
    ELSE LET line == lines[k] IN
         IF IsTitleDelimiter(line)
         THEN TitleLoop(lines, k + 1, TRUE,
                        IF in_frontmatter THEN TRUE ELSE frontmatter_ended)
         ELSE IF IsTitleLine(line, frontmatter_ended)
              THEN [found |-> TRUE, val |-> TitleText(line)]
              ELSE TitleLoop(lines, k + 1, in_frontmatter, frontmatter_ended)

\* basename.split('.')[0].replace('-', ' ').title()
FallbackTitle_lastext(p) ==
    LET parts == Split(Basename(p), ".")
    IN  TitleCase(Replace(Join(SubSeq(parts, 1, Len(parts) - 1), "."), "-", " "))
FallbackTitle(p) == TitleCase(Replace(Split(Basename(p), ".")[1], "-", " "))

\* the inner operation() of extract_title
TitleOperation(p, rd, text) ==
    LET f == ReadFile(rd, text)
        scan == TitleLoop(Split(f.ret, NL), 1, FALSE, FALSE)
    IN  IF f.exc THEN [exc |-> TRUE, ret |-> <<>>]
        ELSE [exc |-> FALSE,
              ret |-> IF scan.found THEN scan.val ELSE FallbackTitle(p)]

extract_title(p, rd, text) ==
    LET r == SafeFileOperation(TitleOperation(p, rd, text))
    IN  IF r.raised THEN Raised ELSE Returned(PyOr(r, Unknown))

----------------------------------------------------------------------------
(* CONFIG *)

\* CONFIG['directories'] / CONFIG['extensions'], in insertion order
Categories == <<"prompts", "instructions", "chatmodes">>
CategorySet == {Categories[i] : i \in 1..Len(Categories)}

Directories(cat) ==
    CASE cat = "prompts" -> <<".", ".", "/", "p", "r", "o", "m", "p", "t", "s">>
      [] cat = "instructions" ->
            <<".", ".", "/", "i", "n", "s", "t", "r", "u", "c", "t", "i", "o", "n", "s">>
      [] cat = "chatmodes" -> <<".", ".", "/", "c", "h", "a", "t", "m", "o", "d", "e", "s">>

Extensions(cat) ==
    CASE cat = "prompts" -> <<".", "p", "r", "o", "m", "p", "t", ".", "m", "d">>
      [] cat = "instructions" ->
            <<".", "i", "n", "s", "t", "r", "u", "c", "t", "i", "o", "n", "s", ".", "m", "d">>
      [] cat = "chatmodes" -> <<".", "c", "h", "a", "t", "m", "o", "d", "e", ".", "m", "d">>

\* CONFIG['models']
Models == <<"GPT-4.1-mini", "Phi-4-mini-instruct", "Meta-Llama-3.1-8B-Instruct",
            "Mistral-Nemo">>

\* CONFIG['metrics']
Metrics == <<"accuracy", "relevance", "completeness", "clarity", "consistency",
             "response_time", "token_usage", "cost_efficiency">>

\* Python's None as a stored value
None == "None"

DescriptionKey == <<"d", "e", "s", "c", "r", "i", "p", "t", "i", "o", "n">>
NoDescription ==
    <<"N", "o", " ", "d", "e", "s", "c", "r", "i", "p", "t", "i", "o", "n", " ",
      "a", "v", "a", "i", "l", "a", "b", "l", "e">>

----------------------------------------------------------------------------
(* discover_evaluation_targets *)

\* A directory is [exists, listing]: listing is the sequence of its entries in
\* the order the file system lists them, each [name, readable, text].
NoDirs == [cat \in CategorySet |-> [exists |-> FALSE, listing |-> <<>>]]

\* full_path.glob(f'*{extension}'): the entries whose name ends with the suffix
GlobMatches(name, extension) == EndsWith(name, extension)

\* str(Path(directory) / name)
PathOf(directory, name) == directory \o <<"/">> \o name

\* dict.get(key, default)
DictGet(d, key, default) == IF key \in DOMAIN d THEN d[key] ELSE default

\* the record appended for one matched file (lines 186-196); raised is TRUE
\* when one of the extractor calls lets an exception through
TargetOf(cat, entry) ==
    LET p == PathOf(Directories(cat), entry.name)
        fm == extract_frontmatter(entry.readable, entry.text)
        t == extract_title(p, entry.readable, entry.text)
    IN  [raised |-> fm.raised \/ t.raised,
         rec |-> [filename |-> entry.name,
                  path |-> p,
                  title |-> t.ret,
                  description |-> DictGet(fm.ret, DescriptionKey, NoDescription),
                  type |-> cat,
                  frontmatter |-> fm.ret]]

\* for file_path in files: ... targets[target_type].append({...})
RECURSIVE FilesLoop(_, _, _, _)
FilesLoop(cat, listing, k, acc) ==
    IF k > Len(listing) THEN [raised |-> FALSE, list |-> acc]
    ELSE IF ~GlobMatches(listing[k].name, Extensions(cat))
         THEN FilesLoop(cat, listing, k + 1, acc)
         ELSE LET t == TargetOf(cat, listing[k])
              IN  IF t.raised THEN [raised |-> TRUE, list |-> acc]
                  ELSE FilesLoop(cat, listing, k + 1, Append(acc, t.rec))

\* for target_type, directory in CONFIG['directories'].items(): a missing
\* directory is skipped with a warning (continue)
AfterMissingDirectory_break(c) == Len(Categories) + 1
AfterMissingDirectory(c) == c + 1

RECURSIVE CategoriesLoop(_, _, _)
CategoriesLoop(d, c, acc) ==
    IF c > Len(Categories) THEN Returned(acc)
    ELSE LET cat == Categories[c] IN
         IF ~d[cat].exists THEN CategoriesLoop(d, AfterMissingDirectory(c), acc)
         ELSE LET r == FilesLoop(cat, d[cat].listing, 1, acc[cat])
              IN  IF r.raised THEN Raised
                  ELSE CategoriesLoop(d, c + 1, [acc EXCEPT ![cat] = r.list])

discover_evaluation_targets(d) ==
    CategoriesLoop(d, 1, [cat \in CategorySet |-> <<>>])

----------------------------------------------------------------------------
(* generate_evaluation_plan *)

TestCases == <<"standard_use_case", "edge_cases", "context_variations",
               "consistency_check">>

\* plan['metadata']['total_targets'] += len(items)
AddCount_assign(total, items) == Len(items)
AddCount(total, items) == total + Len(items)

\* Calculate totals (lines 213-215)
RECURSIVE TotalsLoop(_, _, _)
TotalsLoop(t, c, meta) ==
    IF c > Len(Categories) THEN meta
    ELSE LET cat == Categories[c] IN
         TotalsLoop(t, c + 1,
            [total_targets |-> AddCount(meta.total_targets, t[cat]),
             targets_by_type |->
                [k \in DOMAIN meta.targets_by_type \cup {cat} |->
                    IF k = cat THEN Len(t[cat]) ELSE meta.targets_by_type[k]]])

\* evaluation_entry for one (item, model) pair (lines 221-237)
EvaluationEntry(cat, item, model) ==
    [target |-> [type |-> cat,
                 filename |-> item.filename,
                 title |-> item.title,
                 description |-> item.description],
     model |-> model,
     metrics |-> [m \in {Metrics[i] : i \in 1..Len(Metrics)} |-> None],
     status |-> "pending",
     test_cases |-> TestCases]

\* for model in CONFIG['models']: plan['evaluation_matrix'].append(...)
RECURSIVE ModelsLoop(_, _, _, _)
ModelsLoop(cat, item, m, matrix) ==
    IF m > Len(Models) THEN matrix
    ELSE ModelsLoop(cat, item, m + 1,
                    Append(matrix, EvaluationEntry(cat, item, Models[m])))

\* for item in items
RECURSIVE ItemsLoop(_, _, _, _)
ItemsLoop(cat, items, k, matrix) ==
    IF k > Len(items) THEN matrix
    ELSE ItemsLoop(cat, items, k + 1, ModelsLoop(cat, items[k], 1, matrix))

\* for target_type, items in targets.items()
RECURSIVE MatrixLoop(_, _, _)
MatrixLoop(t, c, matrix) ==
    IF c > Len(Categories) THEN matrix
    ELSE MatrixLoop(t, c + 1, ItemsLoop(Categories[c], t[Categories[c]], 1, matrix))

\* The 'generated' timestamp of the metadata is left out: nothing reads it.
generate_evaluation_plan(t) ==
    Returned([metadata |-> TotalsLoop(t, 1, [total_targets |-> 0,
                                             targets_by_type |-> <<>>]),
              evaluation_matrix |-> MatrixLoop(t, 1, <<>>),
              recommendations |-> <<>>])

----------------------------------------------------------------------------
(* create_evaluation_report: the template's variable parts *)

ReportSection(items) ==
    [count |-> Len(items),
     entries |-> [i \in 1..Len(items) |->
                    [title |-> items[i].title,
                     filename |-> items[i].filename,
                     description |-> items[i].description]]]

create_evaluation_report(t) ==
    [total_files |-> Len(t["prompts"]) + Len(t["instructions"]) + Len(t["chatmodes"]),
     models |-> Models,
     prompts |-> ReportSection(t["prompts"]),
     instructions |-> ReportSection(t["instructions"]),
     chatmodes |-> ReportSection(t["chatmodes"])]

----------------------------------------------------------------------------
(* The network: what requests.post does with one request *)

\* A response with a status and a body that parses as JSON or not, or an
\* exception (timeout, connection error)
NetOutcomes == {
    [kind |-> "response", status |-> 200, json |-> TRUE, text |-> "body-ok"],
    [kind |-> "response", status |-> 200, json |-> FALSE, text |-> "body-html"],
    [kind |-> "response", status |-> 401, json |-> TRUE, text |-> "body-401"],
    [kind |-> "response", status |-> 500, json |-> FALSE, text |-> "body-500"],
    [kind |-> "timeout", status |-> 0, json |-> FALSE, text |-> ""],
    [kind |-> "connection_error", status |-> 0, json |-> FALSE, text |-> ""] }

NoRequest == [kind |-> "none", status |-> 0, json |-> FALSE, text |-> ""]

\* test_github_models_connection: FALSE without a token (no request);
\* otherwise status_code == 200, and FALSE when requests.post raises
test_github_models_connection(token, o) ==
    IF ~token THEN FALSE
    ELSE IF o.kind # "response" THEN FALSE
    ELSE o.status = 200

\* run_evaluation: the returned dict. Without a token no request is sent.
\* An exception of requests.post or of response.json() is caught (line 446).
run_evaluation(token, target_file, model, o) ==
    IF ~token THEN Returned([error |-> [msg |-> "GitHub token not available"]])
    ELSE IF o.kind # "response"
         THEN Returned([success |-> FALSE, error |-> [msg |-> o.kind]])
    ELSE IF o.status = 200
         THEN IF o.json
              THEN Returned([success |-> TRUE,
                             response |-> o.text,
                             response_time |-> "elapsed",
                             model |-> model,
                             target_file |-> target_file])
              ELSE Returned([success |-> FALSE, error |-> [msg |-> "JSONDecodeError"]])
    ELSE Returned([success |-> FALSE,
                   error |-> [msg |-> "API request failed with status",
                              status |-> o.status],
                   response |-> o.text])

----------------------------------------------------------------------------
(* get_file_info *)

\* The file named on the command line is missing, exists but cannot be read
\* as UTF-8 text (a directory, no permission, undecodable bytes), or is a
\* readable text file.
PathExists(st) == st.kind # "missing"
PathReadable(st) == st.kind = "file"

\* Determine file type based on extension (lines 464-470)
FileType(filename) ==
    IF EndsWith(filename, Extensions("prompts")) THEN "prompts"
    ELSE IF EndsWith(filename, Extensions("instructions")) THEN "instructions"
    ELSE IF EndsWith(filename, Extensions("chatmodes")) THEN "chatmodes"
    ELSE "unknown"

\* the inner operation() of get_file_info; None when the path does not exist
FileInfoOperation(p, st) ==
    IF ~PathExists(st) THEN [exc |-> FALSE, isnone |-> TRUE, ret |-> <<>>]
    ELSE LET fm == extract_frontmatter(PathReadable(st), st.text)
             t == extract_title(p, PathReadable(st), st.text)
         IN  IF fm.raised \/ t.raised
             THEN [exc |-> TRUE, isnone |-> FALSE, ret |-> <<>>]
             ELSE [exc |-> FALSE, isnone |-> FALSE,
                   ret |-> [filename |-> Basename(p),
                            path |-> p,
                            title |-> t.ret,
                            description |->
                                DictGet(fm.ret, DescriptionKey, NoDescription),
                            type |-> FileType(Basename(p)),
                            frontmatter |-> fm.ret]]

\* get_file_info: [raised, none, val]
get_file_info(p, st) ==
    LET op == FileInfoOperation(p, st)
        r == SafeFileOperation(op)
    IN  [raised |-> r.raised,
         none |-> r.none \/ op.isnone,
         val |-> IF r.none \/ op.isnone THEN <<>> ELSE r.val]

----------------------------------------------------------------------------
(* Inputs of the extractor *)

\* Lines a file is made of: delimiters (exact and padded), headings,
\* key/value lines (plain, quoted, half-quoted, repeated key), other text.
FileLines == {
    <<"-", "-", "-">>,
    <<" ", "-", "-", "-">>,
    <<"#", " ", "T">>,
    <<"#", " ", " ", "A", "b", " ">>,
    <<"#", " ">>,
    <<"k", ":", " ", "v">>,
    <<"k", " ", ":", " ", "\"", "w", "\"">>,
    <<"k", ":", " ", "'", "v", "'">>,
    <<"k", ":", " ", "\"">>,
    <<"j", ":", "\"", "\"", "v", "\"", "\"">>,
    <<"j", ":", " ", "\"", "v", "'">>,
    <<"t", "e", "x", "t">>,
    <<":", " ", "v">>,
    <<>> }

RECURSIVE SeqsUpTo(_, _)
SeqsUpTo(S, n) ==
    IF n = 0 THEN {<<>>}
    ELSE LET shorter == SeqsUpTo(S, n - 1)
         IN  shorter \cup {Append(q, x) : q \in {r \in shorter : Len(r) = n - 1}, x \in S}

\* File texts: one to MaxLines lines joined by newlines
FileTexts == {Join(ls, NL) : ls \in SeqsUpTo(FileLines, MaxLines) \ {<<>>}}

FilePaths == {
    <<"a", "B", "-", "c", "2", "d", ".", "x", ".", "m", "d">>,
    <<"m", "y", "-", "c", "o", "o", "l", "-", "p", "r", "o", "m", "p", "t", ".", "p", "r", "o", "m", "p", "t", ".", "m", "d">>,
    <<"p", "/", "m", "y", "-", "a", ".", "p", "r", "o", "m", "p", "t", ".", "m", "d">>,
    <<".", ".", "/", "p", "r", "o", "m", "p", "t", "s", "/", ".", "p", "r", "o", "m", "p", "t", ".", "m", "d">> }

----------------------------------------------------------------------------
(* The CLI at rest: the state of its variables when main is not running *)

NoPath == [kind |-> "missing", text |-> <<>>]

CliIdle ==
    /\ argv = <<>>
    /\ github_token = FALSE
    /\ path_state = NoPath
    /\ outdir = "absent"
    /\ written = {}
    /\ requests = <<>>
    /\ last_run = NotCalled
    /\ net = NoRequest
    /\ results = NotCalled
    /\ todo = <<>>
    /\ printed = {}
    /\ pc = "idle"
    /\ uncaught = FALSE

----------------------------------------------------------------------------
(* The extractor called on one file *)

\* The file is unreadable (missing, a directory, not UTF-8) or holds a text.
InitExtract ==
    /\ file_path \in FilePaths
    /\ \/ readable = FALSE /\ content = <<>>
       \/ readable = TRUE /\ content \in FileTexts
    /\ frontmatter = NotCalled
    /\ title = NotCalled
    /\ dirs = NoDirs /\ targets = NotCalled /\ plan = NotCalled
    /\ CliIdle

CallExtractFrontmatter ==
    /\ ~frontmatter.called
    /\ frontmatter' = extract_frontmatter(readable, content)
    /\ UNCHANGED <<file_path, readable, content, title, discoverVars, cliVars>>

CallExtractTitle ==
    /\ ~title.called
    /\ title' = extract_title(file_path, readable, content)
    /\ UNCHANGED <<file_path, readable, content, frontmatter, discoverVars, cliVars>>

NextExtract == CallExtractFrontmatter \/ CallExtractTitle

SpecExtract == InitExtract /\ [][NextExtract]_vars
----------------------------------------------------------------------------
(* Discovery and plan generation over a directory tree *)

TextWithFrontmatter ==
    <<"-", "-", "-", "\n", "d", "e", "s", "c", "r", "i", "p", "t", "i", "o", "n",
      ":", " ", "d", "\n", "-", "-", "-", "\n", "#", " ", "T">>
TextPlain == <<"#", " ", "H", "e", "a", "d", "\n", "t", "e", "x", "t">>

\* Entries a category's directory may hold: files with the category's suffix
\* (readable with frontmatter, readable without, unreadable) and a file
\* without the suffix.
DirEntries(cat) ==
    { [name |-> <<"a">> \o Extensions(cat), readable |-> TRUE,
       text |-> TextWithFrontmatter],
      [name |-> <<"b">> \o Extensions(cat), readable |-> TRUE, text |-> TextPlain],
      [name |-> <<"b">> \o Extensions(cat), readable |-> FALSE, text |-> <<>>],
      [name |-> <<"c", ".", "m", "d">>, readable |-> TRUE, text |-> TextPlain] }

\* Listings: up to MaxDirFiles entries, in any order, names distinct
Listings(cat) ==
    {l \in SeqsUpTo(DirEntries(cat), MaxDirFiles) :
        \A i, j \in 1..Len(l) : l[i].name = l[j].name => i = j}

DirStates(cat) ==
    {[exists |-> FALSE, listing |-> <<>>]}
        \cup {[exists |-> TRUE, listing |-> l] : l \in Listings(cat)}

InitDiscover ==
    /\ \E p \in DirStates("prompts"), i \in DirStates("instructions"),
          c \in DirStates("chatmodes") :
            dirs = [prompts |-> p, instructions |-> i, chatmodes |-> c]
    /\ targets = NotCalled
    /\ plan = NotCalled
    /\ file_path = <<>> /\ readable = FALSE /\ content = <<>>
    /\ frontmatter = NotCalled /\ title = NotCalled
    /\ CliIdle

Discover ==
    /\ ~targets.called
    /\ targets' = discover_evaluation_targets(dirs)
    /\ UNCHANGED <<dirs, plan, extractVars, cliVars>>

\* The plan command: the plan of the targets just discovered
GeneratePlan ==
    /\ targets.called /\ ~targets.raised
    /\ ~plan.called
    /\ plan' = generate_evaluation_plan(targets.ret)
    /\ UNCHANGED <<dirs, targets, extractVars, cliVars>>

NextDiscover == Discover \/ GeneratePlan

SpecDiscover == InitDiscover /\ [][NextDiscover]_vars

----------------------------------------------------------------------------
(* main: one run of the command line *)

Commands == {"discover", "plan", "report", "summary", "test-connection",
             "info", "evaluate"}

\* Output files of the run
PlanFile == "evaluation-plan.json"
ReportFile == "evaluation-report.md"
ResultFile == "evaluation-result-<timestamp>.json"

\* `if model` / `model not in CONFIG['models']`
IsTruthy(model) == model # None /\ model # ""
IsConfiguredModel_any(model) == TRUE
IsConfiguredModel(model) == \E i \in 1..Len(Models) : Models[i] = model

\* Warning of line 179, once per missing directory
MissingWarnings(d) ==
    IF \E cat \in CategorySet : ~d[cat].exists THEN {"warning_directory"} ELSE {}

\* output_dir.mkdir(exist_ok=True) followed by open(..., 'w'): raises when
\* the output directory cannot be made (its name is taken by a file, or the
\* working directory is not writable)
CanWrite(od) == od # "blocked"

\* A handler that ends main normally
Finish(msgs) ==
    /\ pc' = "done"
    /\ printed' = printed \cup msgs

\* A handler that ends with an exception leaving main
Crash(msgs) ==
    /\ pc' = "done"
    /\ printed' = printed \cup msgs
    /\ uncaught' = TRUE

\* command = sys.argv[1], None when len(sys.argv) < 2
Command == IF argv = <<>> THEN None ELSE argv[1]

\* len(sys.argv) < 2, or no branch matches: print_help
CmdHelp ==
    /\ pc = "start"
    /\ Command \notin Commands
    /\ Finish({"help"})
    /\ UNCHANGED <<argv, github_token, path_state, outdir, written, requests,
                   last_run, net, results, todo, uncaught, discoverVars, extractVars>>

\* command == 'discover'
CmdDiscover ==
    /\ pc = "start" /\ Command = "discover"
    /\ targets' = discover_evaluation_targets(dirs)
    /\ IF targets'.raised
       THEN Crash(MissingWarnings(dirs))
       ELSE Finish(MissingWarnings(dirs) \cup {"targets"}) /\ UNCHANGED uncaught
    /\ UNCHANGED <<argv, github_token, path_state, outdir, written, requests,
                   last_run, net, results, todo, dirs, plan, extractVars>>

\* command == 'plan'
CmdPlan ==
    /\ pc = "start" /\ Command = "plan"
    /\ targets' = discover_evaluation_targets(dirs)
    /\ IF targets'.raised
       THEN /\ Crash(MissingWarnings(dirs))
            /\ UNCHANGED <<plan, outdir, written>>
       ELSE /\ plan' = generate_evaluation_plan(targets'.ret)
            /\ IF CanWrite(outdir)
               THEN /\ outdir' = "dir"
                    /\ written' = written \cup {[file |-> PlanFile, data |-> plan'.ret]}
                    /\ Finish(MissingWarnings(dirs) \cup {"plan_generated"})
                    /\ UNCHANGED uncaught
               ELSE /\ Crash(MissingWarnings(dirs))
                    /\ UNCHANGED <<outdir, written>>
    /\ UNCHANGED <<argv, github_token, path_state, requests, last_run, net,
                   results, todo, dirs, extractVars>>

\* command == 'report'
CmdReport ==
    /\ pc = "start" /\ Command = "report"
    /\ targets' = discover_evaluation_targets(dirs)
    /\ IF targets'.raised
       THEN /\ Crash(MissingWarnings(dirs))
            /\ UNCHANGED <<outdir, written>>
       ELSE IF CanWrite(outdir)
            THEN /\ outdir' = "dir"
                 /\ written' = written \cup
                        {[file |-> ReportFile,
                          data |-> create_evaluation_report(targets'.ret)]}
                 /\ Finish(MissingWarnings(dirs) \cup {"report_created"})
                 /\ UNCHANGED uncaught
            ELSE /\ Crash(MissingWarnings(dirs))
                 /\ UNCHANGED <<outdir, written>>
    /\ UNCHANGED <<argv, github_token, path_state, requests, last_run, net,
                   results, todo, dirs, plan, extractVars>>

\* command == 'summary'
CmdSummary ==
    /\ pc = "start" /\ Command = "summary"
    /\ targets' = discover_evaluation_targets(dirs)
    /\ IF targets'.raised
       THEN Crash(MissingWarnings(dirs))
       ELSE Finish(MissingWarnings(dirs) \cup {"summary"}) /\ UNCHANGED uncaught
    /\ UNCHANGED <<argv, github_token, path_state, outdir, written, requests,
                   last_run, net, results, todo, dirs, plan, extractVars>>

\* command == 'test-connection': one request when a token is set
CmdTestConnection ==
    /\ pc = "start" /\ Command = "test-connection"
    /\ \E o \in IF github_token THEN NetOutcomes ELSE {NoRequest} :
          /\ net' = o
          /\ requests' = IF github_token
                         THEN Append(requests, [model |-> "gpt-4o-mini",
                                                target_file |-> <<>>])
                         ELSE requests
          /\ Finish(IF test_github_models_connection(github_token, o)
                    THEN {"connection_successful"}
                    ELSE {"connection_failed"})
    /\ UNCHANGED <<argv, github_token, path_state, outdir, written, last_run,
                   results, todo, uncaught, discoverVars, extractVars>>

\* command == 'info'
CmdInfo ==
    /\ pc = "start" /\ Command = "info"
    /\ IF Len(argv) < 2
       THEN Finish({"error_no_path"}) /\ UNCHANGED uncaught
       ELSE LET info == get_file_info(argv[2], path_state) IN
            IF info.raised THEN Crash({})
            ELSE IF info.none
                 THEN Finish({"error_file_not_found"}) /\ UNCHANGED uncaught
                 ELSE Finish({"file_information"}) /\ UNCHANGED uncaught
    /\ UNCHANGED <<argv, github_token, path_state, outdir, written, requests,
                   last_run, net, results, todo, discoverVars, extractVars>>

\* command == 'evaluate', up to the first loop iteration of evaluate_file:
\* the argument checks of main and lines 485-493 of evaluate_file
CmdEvaluate ==
    /\ pc = "start" /\ Command = "evaluate"
    /\ IF Len(argv) < 2
       THEN /\ Finish({"error_no_path"})
            /\ UNCHANGED <<results, todo, uncaught>>
       ELSE LET model == IF Len(argv) > 2 THEN argv[3] ELSE None
                info == get_file_info(argv[2], path_state)
            IN  IF IsTruthy(model) /\ ~IsConfiguredModel(model)
                THEN /\ Finish({"error_unknown_model"})
                     /\ UNCHANGED <<results, todo, uncaught>>
                ELSE IF info.raised
                THEN /\ Crash({"evaluating_file"})
                     /\ UNCHANGED <<results, todo>>
                ELSE IF info.none
                THEN /\ results' = Returned([error |-> "File not found or invalid"])
                     /\ todo' = <<>>
                     /\ pc' = "eval_write"
                     /\ printed' = printed \cup {"evaluating_file", "error_file_not_found"}
                     /\ UNCHANGED uncaught
                ELSE /\ results' = Returned([file |-> info.val, evaluations |-> <<>>])
                     /\ todo' = IF IsTruthy(model) THEN <<model>> ELSE Models
                     /\ pc' = "eval_loop"
                     /\ printed' = printed \cup {"evaluating_file"}
                     /\ UNCHANGED uncaught
    /\ UNCHANGED <<argv, github_token, path_state, outdir, written, requests,
                   last_run, net, discoverVars, extractVars>>

\* evaluation['model'] = test_model; evaluation['target'] = target['filename']
Tagged_target_only(evaluation, test_model, filename) ==
    [k \in DOMAIN evaluation \cup {"model", "target"} |->
        IF k = "target" THEN filename
        ELSE IF k \in DOMAIN evaluation THEN evaluation[k]
        ELSE None]
Tagged(evaluation, test_model, filename) ==
    [k \in DOMAIN evaluation \cup {"model", "target"} |->
        IF k = "model" THEN test_model
        ELSE IF k = "target" THEN filename
        ELSE evaluation[k]]

\* One iteration of the loop of evaluate_file (lines 495-508): the file is
\* opened again outside any try, then run_evaluation sends one request when
\* a token is set.
EvaluateStep ==
    /\ pc = "eval_loop" /\ todo # <<>>
    /\ IF ~PathReadable(path_state)
       THEN /\ Crash({"evaluating_model"})
            /\ results' = Raised
            /\ UNCHANGED <<todo, requests, last_run, net>>
       ELSE \E o \in IF github_token THEN NetOutcomes ELSE {NoRequest} :
            LET test_model == Head(todo)
                run == run_evaluation(github_token, argv[2], test_model, o)
            IN  /\ net' = o
                /\ requests' = IF github_token
                               THEN Append(requests, [model |-> test_model,
                                                      target_file |-> argv[2]])
                               ELSE requests
                /\ last_run' = run
                /\ results' = [results EXCEPT !.ret.evaluations =
                                  Append(@, Tagged(run.ret, test_model,
                                                   results.ret.file.filename))]
                /\ todo' = Tail(todo)
                /\ pc' = IF Tail(todo) = <<>> THEN "eval_write" ELSE "eval_loop"
                /\ printed' = printed \cup {"evaluating_model"}
                /\ UNCHANGED uncaught
    /\ UNCHANGED <<argv, github_token, path_state, outdir, written,
                   discoverVars, extractVars>>

\* main after evaluate_file returned (lines 617-627): make the output
\* directory and write the result file
EvaluateWrite ==
    /\ pc = "eval_write"
    /\ IF CanWrite(outdir)
       THEN /\ outdir' = "dir"
            /\ written' = written \cup {[file |-> ResultFile, data |-> results.ret]}
            /\ Finish({"evaluation_completed"})
            /\ UNCHANGED uncaught
       ELSE /\ Crash({})
            /\ UNCHANGED <<outdir, written>>
    /\ UNCHANGED <<argv, github_token, path_state, requests, last_run, net,
                   results, todo, discoverVars, extractVars>>

----------------------------------------------------------------------------
(* Runs of the command line *)

CliPaths == {
    <<"p", "/", "a", ".", "p", "r", "o", "m", "p", "t", ".", "m", "d">>,
    <<"x", ".", "m", "d">> }

\* Model arguments: configured ones, one that is not configured, the empty
\* string
ModelArgs == {"GPT-4.1-mini", "Mistral-Nemo", "gpt-4o-mini", ""}

Argvs ==
    {<<>>, <<"bogus">>}
        \cup {<<c>> : c \in Commands}
        \cup {<<c, p>> : c \in {"info", "evaluate"}, p \in CliPaths}
        \cup {<<"evaluate", p, m>> : p \in CliPaths, m \in ModelArgs}

PathStates == {
    [kind |-> "missing", text |-> <<>>],
    [kind |-> "unreadable", text |-> <<>>],
    [kind |-> "file", text |-> TextWithFrontmatter] }

\* Directory trees of a run: nothing there, or prompts with a readable and
\* an unreadable file, no instructions directory, chatmodes with one file
\* that has frontmatter and one without the suffix
CliTree ==
    [cat \in CategorySet |->
        CASE cat = "prompts" ->
                [exists |-> TRUE,
                 listing |-> << [name |-> <<"b">> \o Extensions(cat),
                                 readable |-> FALSE, text |-> <<>>],
                                [name |-> <<"a">> \o Extensions(cat),
                                 readable |-> TRUE, text |-> TextWithFrontmatter] >>]
          [] cat = "instructions" -> [exists |-> FALSE, listing |-> <<>>]
          [] cat = "chatmodes" ->
                [exists |-> TRUE,
                 listing |-> << [name |-> <<"a">> \o Extensions(cat),
                                 readable |-> TRUE, text |-> TextPlain],
                                [name |-> <<"c", ".", "m", "d">>,
                                 readable |-> TRUE, text |-> TextPlain] >>]]

InitCLI ==
    /\ argv \in Argvs
    /\ github_token \in BOOLEAN
    /\ path_state \in PathStates
    /\ outdir \in {"absent", "dir", "blocked"}
    /\ dirs \in {NoDirs, CliTree}
    /\ written = {}
    /\ requests = <<>>
    /\ last_run = NotCalled
    /\ net = NoRequest
    /\ results = NotCalled
    /\ todo = <<>>
    /\ printed = {}
    /\ pc = "start"
    /\ uncaught = FALSE
    /\ targets = NotCalled /\ plan = NotCalled
    /\ file_path = <<>> /\ readable = FALSE /\ content = <<>>
    /\ frontmatter = NotCalled /\ title = NotCalled

NextCLI ==
    \/ CmdHelp
    \/ CmdDiscover
    \/ CmdPlan
    \/ CmdReport
    \/ CmdSummary
    \/ CmdTestConnection
    \/ CmdInfo
    \/ CmdEvaluate
    \/ EvaluateStep
    \/ EvaluateWrite

SpecCLI == InitCLI /\ [][NextCLI]_vars

\* The program: a run of the command line
Init == InitCLI
Next == NextCLI
Spec == Init /\ [][Next]_vars

----------------------------------------------------------------------------
(* Vocabulary of the extractor's claims, stated on the lines of the file   *)

LinesOf(text) == Split(text, NL)
SetMin(S) == CHOOSE x \in S : \A y \in S : x <= y
SetMax(S) == CHOOSE x \in S : \A y \in S : x >= y

\* Indices of the lines that start with the two characters "# "
HeadingLines(ls) == {i \in 1..Len(ls) : Len(ls[i]) >= 2 /\ ls[i][1] = "#" /\ ls[i][2] = " "}
\* The text of a heading after its prefix, trimmed
AfterPrefix(line) == Strip(SubSeq(line, 3, Len(line)))
\* Indices, after the first line, of the lines that are exactly ---
LaterDelims(ls) == {i \in 2..Len(ls) : ls[i] = <<"-", "-", "-">>}
\* Index of the closing delimiter, or one past the last line when there is none
CloseIndex(ls) == IF LaterDelims(ls) = {} THEN Len(ls) + 1 ELSE SetMin(LaterDelims(ls))
\* A line of the shape key: value has a colon with at least one character,
\* none of them a colon, before it
ColonAt(line, c) == line[c] = ":" /\ \A j \in 1..(c - 1) : line[j] # ":"
HasKeyValueShape(line) == \E c \in 2..Len(line) : ColonAt(line, c)
KeyOfLine(line) ==
    LET c == CHOOSE c \in 2..Len(line) : ColonAt(line, c)
    IN  Strip(SubSeq(line, 1, c - 1))
RemainderOfLine(line) ==
    LET c == CHOOSE c \in 2..Len(line) : ColonAt(line, c)
    IN  Strip(SubSeq(line, c + 1, Len(line)))
\* The scanned lines of the shape key: value
ScannedMatches(ls) == {i \in 2..(CloseIndex(ls) - 1) : HasKeyValueShape(ls[i])}
LastWithKey(ls, k) == SetMax({i \in ScannedMatches(ls) : KeyOfLine(ls[i]) = k})
\* One layer of a matching pair of quotes removed
IsQuote(c) == c = "\"" \/ c = "'"
EnclosedInQuotes(v) == Len(v) >= 2 /\ IsQuote(v[1]) /\ v[Len(v)] = v[1]
WithoutQuotes(v) == IF EnclosedInQuotes(v) THEN SubSeq(v, 2, Len(v) - 1) ELSE v

----------------------------------------------------------------------------
(* Claims about the extractor (specification SpecExtract) *)

\* C1: for a readable file whose first line is not --- and that has a line
\* starting with "# ", extract_title returns the trimmed text after "# " of
\* the first such line (the filename fallback is not used).
C1_TitleWithoutFrontmatter ==
    LET ls == LinesOf(content)
        H == HeadingLines(ls)
    IN  (title.called /\ readable /\ ls[1] # Delim /\ H # {}) =>
        (~title.raised /\ title.ret = AfterPrefix(ls[SetMin(H)]))

\* C2: for a readable file whose first line is --- and that has a second ---
\* line, extract_title returns the trimmed text after "# " of the first line
\* starting with "# " that comes after the second --- line.
C2_TitleAfterFrontmatter ==
    LET ls == LinesOf(content)
        after == {i \in HeadingLines(ls) : i > CloseIndex(ls)}
    IN  (title.called /\ readable /\ ls[1] = Delim /\ LaterDelims(ls) # {}
            /\ after # {}) =>
        (~title.raised /\ title.ret = AfterPrefix(ls[SetMin(after)]))

\* C3: for a readable file whose first line is exactly ---, extract_frontmatter
\* returns without error exactly the mapping of the key: value lines between
\* the first line and the closing --- (or end of file): each key maps to the
\* value of the last such line with that key.
C3_FrontmatterMapping ==
    LET ls == LinesOf(content)
        keys == {KeyOfLine(ls[i]) : i \in ScannedMatches(ls)}
    IN  (frontmatter.called /\ readable /\ ls[1] = Delim) =>
        /\ ~frontmatter.raised
        /\ DOMAIN frontmatter.ret = keys
        /\ \A k \in keys :
              frontmatter.ret[k] = MatchValue(ls[LastWithKey(ls, k)])

\* C3 witness: a scanned key occurs twice with different values
C3_Witness ==
    LET ls == LinesOf(content) IN
    /\ frontmatter.called /\ readable /\ ls[1] = Delim
    /\ \E i, j \in ScannedMatches(ls) :
          /\ i < j
          /\ KeyOfLine(ls[i]) = KeyOfLine(ls[j])
          /\ MatchValue(ls[i]) # MatchValue(ls[j])

\* C4: for a readable file whose first line is not exactly ---,
\* extract_frontmatter returns the empty mapping.
C4_NoFrontmatterIsEmpty ==
    (frontmatter.called /\ readable /\ LinesOf(content)[1] # Delim) =>
        (~frontmatter.raised /\ DOMAIN frontmatter.ret = {})

\* C4 witness: no opening ---, but a later --- line and a key: value line
C4_Witness ==
    LET ls == LinesOf(content) IN
    /\ frontmatter.called /\ readable /\ ls[1] # Delim
    /\ LaterDelims(ls) # {}
    /\ \E i \in 1..Len(ls) : HasKeyValueShape(ls[i])

\* C5: every stored value is the trimmed remainder after the first colon with
\* one layer of quotes removed when it is enclosed in a matching pair of quote
\* characters, and is that remainder unchanged otherwise.
C5_QuotesStrippedOnce ==
    LET ls == LinesOf(content) IN
    (frontmatter.called /\ readable /\ ls[1] = Delim) =>
        \A k \in DOMAIN frontmatter.ret :
            /\ \E i \in ScannedMatches(ls) : KeyOfLine(ls[i]) = k
            /\ frontmatter.ret[k] =
                  WithoutQuotes(RemainderOfLine(ls[LastWithKey(ls, k)]))

\* C6: when the file cannot be opened, read or decoded, extract_frontmatter
\* returns the empty mapping and extract_title returns "Unknown"; neither
\* raises.
C6_UnreadableDefaults ==
    /\ (frontmatter.called /\ ~readable) =>
          (~frontmatter.raised /\ DOMAIN frontmatter.ret = {})
    /\ (title.called /\ ~readable) =>
          (~title.raised /\ title.ret = <<"U", "n", "k", "n", "o", "w", "n">>)

\* C6 witness: both extractors have run on an unreadable file
C6_Witness == ~readable /\ frontmatter.called /\ title.called
----------------------------------------------------------------------------
(* Claims about discovery and plan generation (specification SpecDiscover) *)

\* Names of the entries of a category's directory that carry its suffix
SuffixedNames(cat) ==
    {dirs[cat].listing[i].name : i \in
        {j \in 1..Len(dirs[cat].listing) :
            LET n == dirs[cat].listing[j].name
                x == Extensions(cat)
            IN  Len(n) >= Len(x) /\ SubSeq(n, Len(n) - Len(x) + 1, Len(n)) = x}}

\* C7: discover_evaluation_targets completes without raising and returns the
\* three categories; a missing directory gives an empty list and the other
\* categories are still processed; an existing one gives exactly one record,
\* tagged with the category, per entry whose name ends with the suffix, also
\* when the entry cannot be read.
C7_DiscoveryComplete ==
    targets.called =>
        /\ ~targets.raised
        /\ DOMAIN targets.ret = {"prompts", "instructions", "chatmodes"}
        /\ \A cat \in {"prompts", "instructions", "chatmodes"} :
              LET recs == targets.ret[cat] IN
              IF ~dirs[cat].exists THEN recs = <<>>
              ELSE /\ Len(recs) = Cardinality(SuffixedNames(cat))
                   /\ \A n \in SuffixedNames(cat) :
                         Cardinality({i \in 1..Len(recs) : recs[i].filename = n}) = 1
                   /\ \A i \in 1..Len(recs) : recs[i].type = cat

\* C7 witness: the first directory is missing, a later one holds a suffixed
\* file that cannot be read next to a file without the suffix, and the
\* unreadable file has its record
C7_Witness ==
    /\ targets.called
    /\ ~dirs["prompts"].exists
    /\ dirs["chatmodes"].exists
    /\ \E i, j \in 1..Len(dirs["chatmodes"].listing) :
          LET e == dirs["chatmodes"].listing[i]
              o == dirs["chatmodes"].listing[j]
          IN  /\ ~e.readable
              /\ e.name \in SuffixedNames("chatmodes")
              /\ o.name \notin SuffixedNames("chatmodes")
              /\ \E k \in 1..Len(targets.ret["chatmodes"]) :
                    targets.ret["chatmodes"][k].filename = e.name

\* Number of targets of a discovery result
RECURSIVE SumLens(_, _)
SumLens(t, S) ==
    IF S = {} THEN 0
    ELSE LET c == CHOOSE c \in S : TRUE IN Len(t[c]) + SumLens(t, S \ {c})
RECURSIVE SumOf(_, _)
SumOf(f, S) ==
    IF S = {} THEN 0
    ELSE LET c == CHOOSE c \in S : TRUE IN f[c] + SumOf(f, S \ {c})

\* C8: for a discovery result with N targets and M models the plan has
\* exactly N*M matrix entries, exactly one per (target, model) pair, each
\* pending with every metric present and unset; total_targets is N and is
\* the sum of targets_by_type.
C8_PlanMatrix ==
    plan.called =>
        LET t == targets.ret
            N == SumLens(t, DOMAIN t)
            matrix == plan.ret.evaluation_matrix
            meta == plan.ret.metadata
            metricSet == {"accuracy", "relevance", "completeness", "clarity",
                          "consistency", "response_time", "token_usage",
                          "cost_efficiency"}
        IN  /\ ~plan.raised
            /\ Len(matrix) = N * Len(Models)
            /\ \A cat \in DOMAIN t : \A i \in 1..Len(t[cat]) :
                  \A m \in 1..Len(Models) :
                     Cardinality({e \in 1..Len(matrix) :
                        /\ matrix[e].target.type = cat
                        /\ matrix[e].target.filename = t[cat][i].filename
                        /\ matrix[e].model = Models[m]}) = 1
            /\ \A e \in 1..Len(matrix) :
                  /\ matrix[e].status = "pending"
                  /\ DOMAIN matrix[e].metrics = metricSet
                  /\ \A k \in metricSet : matrix[e].metrics[k] = None
            /\ meta.total_targets = N
            /\ meta.total_targets = SumOf(meta.targets_by_type,
                                          DOMAIN meta.targets_by_type)

\* C8 witness: a plan over targets of at least two categories, one of them
\* with two targets
C8_Witness ==
    /\ plan.called
    /\ Len(targets.ret["prompts"]) = 2
    /\ Len(targets.ret["chatmodes"]) >= 1
    /\ Len(plan.ret.evaluation_matrix) >= 3 * Len(Models)
----------------------------------------------------------------------------
(* Claims about run_evaluation and the command line (specification SpecCLI) *)

\* C9: every call of run_evaluation returns a result and does not raise; the
\* result has success = TRUE exactly when the response was HTTP 200 with a
\* JSON body, and otherwise (other status, timeout, connection error, no
\* credential) success = FALSE with an error description; for a status other
\* than 200 it carries the status code and the raw body text.
C9_RunEvaluationResult ==
    last_run.called =>
        LET r == last_run.ret
            ok == net.kind = "response" /\ net.status = 200 /\ net.json
        IN  /\ ~last_run.raised
            /\ "success" \in DOMAIN r
            /\ r.success = ok
            /\ (~r.success => "error" \in DOMAIN r)
            /\ (net.kind = "response" /\ net.status # 200) =>
                  /\ r.error.status = net.status
                  /\ r.response = net.text

\* C10: a run of the command line ends without an uncaught exception,
\* whatever the subcommand, the file system and the network do. Stated for
\* the runs whose output directory can be written: the conditions the claim
\* lists are a missing directory, an unreadable file, a path that is a
\* directory and a failed request.
C10_NoUncaughtException ==
    (pc = "done" /\ outdir # "blocked") => ~uncaught
----------------------------------------------------------------------------
(* C11: user-input errors (specification SpecCLI) *)

\* The command line is a user-input error: no subcommand or an unknown one,
\* info or evaluate without a path, evaluate with a model name (a non-empty
\* third argument) that is not one of the configured models
UserInputError ==
    IF argv = <<>> THEN TRUE
    ELSE IF argv[1] \notin {"discover", "plan", "report", "summary",
                            "test-connection", "info", "evaluate"} THEN TRUE
    ELSE IF argv[1] \in {"info", "evaluate"} /\ Len(argv) < 2 THEN TRUE
    ELSE IF argv[1] = "evaluate" /\ Len(argv) >= 3
         THEN argv[3] # "" /\ argv[3] \notin {"GPT-4.1-mini", "Phi-4-mini-instruct",
                                             "Meta-Llama-3.1-8B-Instruct",
                                             "Mistral-Nemo"}
    ELSE FALSE

----------------------------------------------------------------------------
(* C12: the filename fallback of extract_title (specification SpecExtract) *)

\* Lines that are --- once trimmed, and the headings after the second of them
TrimmedDelims(ls) == {i \in 1..Len(ls) : Strip(ls[i]) = <<"-", "-", "-">>}
QualifyingHeadings(ls) ==
    IF Cardinality(TrimmedDelims(ls)) < 2 THEN {}
    ELSE LET second == SetMin(TrimmedDelims(ls) \ {SetMin(TrimmedDelims(ls))})
         IN  {i \in HeadingLines(ls) : i > second}

\* The part of the base name (the text after the last "/") before its first "."
SlashesOf(p) == {i \in 1..Len(p) : p[i] = "/"}
BaseNameOf(p) ==
    IF SlashesOf(p) = {} THEN p ELSE SubSeq(p, SetMax(SlashesOf(p)) + 1, Len(p))
StemOf(p) ==
    LET b == BaseNameOf(p)
        dots == {i \in 1..Len(b) : b[i] = "."}
    IN  IF dots = {} THEN b ELSE SubSeq(b, 1, SetMin(dots) - 1)

IsLetter(c) == \E i \in 1..26 : LowerChars[i] = c \/ UpperChars[i] = c

\* r is w with every "-" replaced by a space and each word capitalized: the
\* first character of a word in upper case, the others as they are or in
\* lower case
IsCapitalizedForm(r, w) ==
    /\ Len(r) = Len(w)
    /\ \A i \in 1..Len(w) :
          IF w[i] = "-" THEN r[i] = " "
          ELSE IF i = 1 \/ w[i - 1] \in {"-", " "} THEN r[i] = ToUpper(w[i])
          ELSE r[i] \in {w[i], ToLower(w[i])}

\* w with every "-" replaced by a space, a letter in upper case when it is
\* first or follows a character that is not a letter, in lower case otherwise
TitleCasedForm(w) ==
    [i \in 1..Len(w) |->
        IF w[i] = "-" THEN " "
        ELSE IF i > 1 /\ IsLetter(w[i - 1]) THEN ToLower(w[i])
        ELSE ToUpper(w[i])]

\* C12 as stated: when the scan finds no qualifying "# " line, extract_title
\* returns the part of the base name before its first ".", with every "-"
\* replaced by a space and each word capitalized.
C12_FallbackCapitalized ==
    (title.called /\ readable /\ QualifyingHeadings(LinesOf(content)) = {}) =>
        (~title.raised /\ IsCapitalizedForm(title.ret, StemOf(file_path)))

\* C12 amended: when the scan finds no qualifying "# " line, extract_title
\* returns the part of the base name before its first ".", with every "-"
\* replaced by a space, each letter that is first or follows a non-letter in
\* upper case and every other letter in lower case; when that text is empty
\* it returns "Unknown".
C12_FallbackTitleCased ==
    (title.called /\ readable /\ QualifyingHeadings(LinesOf(content)) = {}) =>
        /\ ~title.raised
        /\ title.ret = IF StemOf(file_path) = <<>>
                       THEN <<"U", "n", "k", "n", "o", "w", "n">>
                       ELSE TitleCasedForm(StemOf(file_path))

\* C12 witness: my-cool-prompt.prompt.md, headings only inside the
\* frontmatter block, yields My Cool Prompt
C12_Witness ==
    /\ title.called /\ readable
    /\ HeadingLines(LinesOf(content)) # {}
    /\ QualifyingHeadings(LinesOf(content)) = {}
    /\ StemOf(file_path) = <<"m", "y", "-", "c", "o", "o", "l", "-", "p", "r", "o", "m", "p", "t">>
    /\ title.ret = <<"M", "y", " ", "C", "o", "o", "l", " ", "P", "r", "o", "m", "p", "t">>
----------------------------------------------------------------------------
(* C13: evaluate_file on an existing readable file (specification SpecCLI) *)

\* The models asked for: the single given model, otherwise the configured
\* models in configured order
RequestedModels ==
    IF Len(argv) > 2 /\ argv[3] # "" THEN <<argv[3]>>
    ELSE <<"GPT-4.1-mini", "Phi-4-mini-instruct",
           "Meta-Llama-3.1-8B-Instruct", "Mistral-Nemo">>

\* The last network outcome is a success: HTTP 200 with a JSON body
LastCallSucceeded == net.kind = "response" /\ net.status = 200 /\ net.json

\* C13: for an existing readable file, at every point of evaluate_file the
\* entries returned so far are one per requested model, in the requested
\* order, each tagged with its model and the target's file name; the requests
\* sent so far are one per entry in the same order (none without a token); the
\* models still to do are the rest of the requested ones; a failed or timed-out
\* call is recorded as the entry of its model; and once the loop has ended
\* there is exactly one entry per requested model.
C13_OneEntryPerModel ==
    (Command = "evaluate" /\ Len(argv) >= 2 /\ PathReadable(path_state)
        /\ results.called) =>
        /\ ~results.raised
        /\ LET evs == results.ret.evaluations
               n == Len(evs)
           IN  /\ n <= Len(RequestedModels)
               /\ \A i \in 1..n :
                     /\ evs[i].model = RequestedModels[i]
                     /\ evs[i].target = BaseNameOf(argv[2])
               /\ todo = SubSeq(RequestedModels, n + 1, Len(RequestedModels))
               /\ requests = IF github_token
                             THEN [i \in 1..n |->
                                      [model |-> RequestedModels[i],
                                       target_file |-> argv[2]]]
                             ELSE <<>>
               /\ (pc \in {"eval_write", "done"}) => n = Len(RequestedModels)
               /\ (n > 0 /\ github_token) =>
                     /\ evs[n].success = LastCallSucceeded
                     /\ ~LastCallSucceeded => "error" \in DOMAIN evs[n]

\* C13 witness: a finished run over all configured models in which a timed-out
\* call is followed by a successful call for a later model
C13_Witness ==
    /\ pc = "done" /\ ~uncaught /\ github_token
    /\ Len(argv) = 2 /\ argv[1] = "evaluate" /\ PathReadable(path_state)
    /\ results.called /\ ~results.raised
    /\ Len(results.ret.evaluations) = 4 /\ Len(requests) = 4
    /\ \E i \in 1..3 :
          /\ results.ret.evaluations[i].success = FALSE
          /\ results.ret.evaluations[i].error.msg = "timeout"
          /\ results.ret.evaluations[i + 1].success = TRUE
          /\ results.ret.evaluations[i + 1].model = RequestedModels[i + 1]
----------------------------------------------------------------------------
(* C14: extract_title always yields a title (specification SpecExtract) *)

\* C14: for every file path and every content, readable or not, a call of
\* extract_title returns (it does not raise) and the string it returns is not
\* empty.
C14_TitleNonEmpty ==
    title.called => (~title.raised /\ Len(title.ret) > 0)

\* C14 witness: a readable file without a qualifying heading whose base name
\* starts with ".", so that the fallback text is empty before the default
\* applies
C14_Witness ==
    /\ title.called /\ readable /\ ~title.raised
    /\ QualifyingHeadings(LinesOf(content)) = {}
    /\ BaseNameOf(file_path) # <<>> /\ StemOf(file_path) = <<>>
    /\ Len(title.ret) > 0

====
